---- MODULE Spec2Model ----
(***************************************************************************)
(* Model of src/factor_dashboard.py: the performance-period calculation    *)
(* (calculate_performance_metrics), the provider wrapper                   *)
(* (get_performance_data), the benchmark-relative ranking                  *)
(* (display_performance_section) and the colouring                         *)
(* (style_performance_table).                                              *)
(*                                                                         *)
(* Conventions.                                                            *)
(*   - A calendar date (a pandas Timestamp at midnight) is a record        *)
(*     [y, m, d].                                                          *)
(*   - A float cell is a tuple: <<>> is NaN, <<p>> is the price p, and     *)
(*     <<n, d>> (d > 0) is the exact fraction n/d of a computed return, a  *)
(*     difference of returns or an intensity.  A NaN operand makes every   *)
(*     arithmetic result NaN and every comparison false, as in IEEE/pandas.*)
(*   - A DataFrame is a record [index, columns, val] with val[r][c] the    *)
(*     cell of row label r and column label c; pd.DataFrame() is the frame *)
(*     with no rows and no columns.                                        *)
(***************************************************************************)
EXTENDS Integers, Sequences, FiniteSets, TLC

VARIABLES
    today,              \* datetime.now().date(), read by every call
    pc,                 \* "tabs" (between calls), "shown" (a call ended), "raised" (it raised);
                        \* "boundaries" / "resolved" when only lines 87-92 are run
    tab,                \* number of `with tabN:` blocks entered so far
    title,              \* title of the last section displayed
    raw_data,           \* what yf.download returned (the 'Close' block)
    data,               \* result of get_performance_data
    performance_table,  \* result of calculate_performance_metrics
    display_table,      \* the frame handed to st.dataframe (row order matters)
    styled,             \* per-cell result of color_rows_gradient
    outcome,            \* which branch of display_performance_section ended the call
    report,             \* st.error / st.warning messages emitted by the call
    start_of_week,      \* locals of calculate_performance_metrics, lines 90-92
    start_of_month,
    start_of_quarter,
    start_prices        \* its sow_price, som_price, soq_price and soy_price, lines 96-105

vars == <<today, pc, tab, title, raw_data, data, performance_table, display_table,
          styled, outcome, report, start_of_week, start_of_month, start_of_quarter,
          start_prices>>

----------------------------------------------------------------------------
(* Bounds of the model *)

\* prices are drawn from 1..MaxPrice (and NaN)
MaxPrice == 2
\* a downloaded frame has at most MaxRows trading dates ...
MaxRows == 3
\* ... at most MaxCols tickers ...
MaxCols == 3
\* ... and at most MaxCells cells
MaxCells == 6

----------------------------------------------------------------------------
(* Calendar arithmetic (datetime / pandas Timestamp) *)

NaN == <<>>

NoDate == [y |-> 0, m |-> 0, d |-> 0]

Date(y, m, d) == [y |-> y, m |-> m, d |-> d]

IsLeap(y) == (y % 4 = 0 /\ y % 100 # 0) \/ y % 400 = 0

DaysInMonth(y, m) ==
    IF m = 2 THEN (IF IsLeap(y) THEN 29 ELSE 28)
    ELSE IF m \in {4, 6, 9, 11} THEN 30 ELSE 31

RECURSIVE DaysBeforeMonth(_, _)
DaysBeforeMonth(y, m) ==
    IF m = 1 THEN 0 ELSE DaysBeforeMonth(y, m - 1) + DaysInMonth(y, m - 1)

\* date.toordinal(): proleptic Gregorian ordinal, 0001-01-01 is day 1
ToOrdinal(t) ==
    LET y1 == t.y - 1
    IN  y1 * 365 + (y1 \div 4) - (y1 \div 100) + (y1 \div 400)
        + DaysBeforeMonth(t.y, t.m) + t.d

\* date.weekday(): Monday is 0, Sunday is 6
Weekday(t) == (ToOrdinal(t) + 6) % 7

\* Timestamp comparison
DateLt(a, b) ==
    \/ a.y < b.y
    \/ a.y = b.y /\ a.m < b.m
    \/ a.y = b.y /\ a.m = b.m /\ a.d < b.d
DateLeq(a, b) == a = b \/ DateLt(a, b)

PrevDay(t) ==
    IF t.d > 1 THEN Date(t.y, t.m, t.d - 1)
    ELSE IF t.m > 1 THEN Date(t.y, t.m - 1, DaysInMonth(t.y, t.m - 1))
    ELSE Date(t.y - 1, 12, 31)

NextDay(t) ==
    IF t.d < DaysInMonth(t.y, t.m) THEN Date(t.y, t.m, t.d + 1)
    ELSE IF t.m < 12 THEN Date(t.y, t.m + 1, 1)
    ELSE Date(t.y + 1, 1, 1)

\* t + timedelta(days=n), n of either sign
RECURSIVE AddDays(_, _)
AddDays(t, n) ==
    IF n = 0 THEN t
    ELSE IF n > 0 THEN AddDays(NextDay(t), n - 1)
    ELSE AddDays(PrevDay(t), n + 1)

\* pandas shift_month(stamp, months, day_opt="start")
ShiftMonthStart(t, months) ==
    LET s  == t.m + months
        mo == s % 12
        dy == s \div 12
    IN  IF mo = 0 THEN Date(t.y + dy - 1, 12, 1) ELSE Date(t.y + dy, mo, 1)

\* today - pd.offsets.Week(weekday=0): Week._apply with n = -1
WeekRollback(t) ==
    LET otherDay == Weekday(t)
    IN  IF otherDay # 0
        THEN AddDays(AddDays(t, (0 - otherDay) % 7), -7)
        ELSE AddDays(t, -7)

\* today - pd.offsets.MonthBegin(1): roll_convention, then shift_month
MonthBeginRollback(t) ==
    LET n == IF t.d > 1 THEN 0 ELSE -1
    IN  ShiftMonthStart(t, n)

\* today - pd.offsets.QuarterBegin(1, startingMonth=1): roll_qtrday, then shift_month
QuarterBeginRollback(t) ==
    LET months_since == (t.m % 3) - (1 % 3)
        n == IF months_since > 0 \/ (months_since = 0 /\ t.d > 1) THEN 0 ELSE -1
    IN  ShiftMonthStart(t, n * 3 - months_since)

----------------------------------------------------------------------------
(* Ticker definitions, lines 15-50: each dict as its sequence of <<name, ticker>> *)

FACTOR_TICKERS == <<
    <<"MSCI USA (US Benchmark)", "EUSA">>,
    <<"MSCI World (Global Benchmark)", "URTH">>,
    <<"USA Momentum", "MTUM">>,
    <<"USA Value", "VLUE">>,
    <<"USA Quality", "QUAL">>,
    <<"USA Growth", "IUSG">>,
    <<"USA Low Volatility", "USMV">>,
    <<"USA Size", "SIZE">> >>

REGION_TICKERS == <<
    <<"MSCI World (Benchmark)", "URTH">>,
    <<"USA (S&P 500)", "VOO">>,
    <<"Japan", "EWJ">>,
    <<"UK", "EWU">>,
    <<"Europe ex-UK", "EZU">>,
    <<"Emerging Markets ex-China", "EMXC">>,
    <<"China", "MCHI">>,
    <<"Canada", "EWC">> >>

SECTOR_TICKERS == <<
    <<"S&P 500 (US Benchmark)", "VOO">>,
    <<"Info. Technology", "VGT">>,
    <<"Health Care", "VHT">>,
    <<"Financials", "VFH">>,
    <<"Cons. Discretionary", "VCR">>,
    <<"Industrials", "VIS">>,
    <<"Cons. Staples", "VDC">>,
    <<"Energy", "VDE">>,
    <<"Utilities", "VPU">>,
    <<"Materials", "VAW">>,
    <<"Real Estate", "VNQ">>,
    <<"Communication Svcs", "VOX">> >>

\* the three calls of the main script, lines 263-268, in order
Sections == <<
    [title |-> "Factor",   tickers |-> FACTOR_TICKERS],
    [title |-> "Regional", tickers |-> REGION_TICKERS],
    [title |-> "Sector",   tickers |-> SECTOR_TICKERS] >>

\* tickers.keys() and tickers.values()
Names(tickers) == {tickers[i][1] : i \in 1..Len(tickers)}
Values(tickers) == [i \in 1..Len(tickers) |-> tickers[i][2]]

----------------------------------------------------------------------------
(* Frames *)

Range(s) == {s[i] : i \in 1..Len(s)}

Max(S) == CHOOSE x \in S : \A y \in S : y <= x
Min(S) == CHOOSE x \in S : \A y \in S : x <= y

\* pd.DataFrame()
EmptyFrame == [index |-> <<>>, columns |-> <<>>, val |-> <<>>]

\* DataFrame.empty: some axis has length 0
IsEmpty(df) == Len(df.index) = 0 \/ Len(df.columns) = 0

\* Series.isnull().all() of a row
AllNull(row) == \A c \in DOMAIN row : row[c] = NaN

\* the dates of a set, ascending (a DatetimeIndex)
RECURSIVE SortDates(_)
SortDates(S) ==
    IF S = {} THEN <<>>
    ELSE LET first == CHOOSE t \in S : \A u \in S : DateLeq(t, u)
         IN  <<first>> \o SortDates(S \ {first})

\* the subsequences of s (the columns of a sub-frame keep their order)
RECURSIVE SubSeqs(_)
SubSeqs(s) ==
    IF s = <<>> THEN {<<>>}
    ELSE LET rest == SubSeqs(Tail(s))
         IN  rest \cup {<<Head(s)>> \o r : r \in rest}

----------------------------------------------------------------------------
(* The market-data provider: what yf.download can answer, line 58 *)

Cells == {NaN} \cup {<<p>> : p \in 1..MaxPrice}

\* trading dates a download made on `t` may hold: two at the end of the prior
\* year, the first of the current year, one in the week before `t`, and `t`
CandDates(t) ==
    {Date(t.y - 1, 12, 30), Date(t.y - 1, 12, 31), Date(t.y, 1, 2), AddDays(t, -5), t}

\* a download that is not empty holds a date of the last week
RecentDates(t) == {AddDays(t, -5), t}

\* the tickers of the request that the provider may answer for
Universe(tickers) ==
    SubSeq(Values(tickers), 1, IF Len(tickers) < MaxCols THEN Len(tickers) ELSE MaxCols)

\* yf.download(...) returned nothing: raw_data.empty
EmptyRaw == [close |-> TRUE, index |-> <<>>, columns |-> <<>>, val |-> <<>>]

\* yf.download(...) returned rows, none of them under 'Close'
NoCloseRaw(t) == [close |-> FALSE, index |-> <<t>>, columns |-> <<>>, val |-> <<>>]

\* the tickers of a download that is not empty, in the order of the request
AnsweredTickers(tickers) == SubSeqs(Universe(tickers)) \ {<<>>}

\* the dates of a download of `ncols` tickers made on `t` that is not empty
AnsweredDates(t, ncols) ==
    {ds \in SUBSET CandDates(t) :
        /\ ds \cap RecentDates(t) # {}
        /\ Cardinality(ds) <= MaxRows
        /\ Cardinality(ds) * ncols <= MaxCells}

\* a frame yf.download may return for the request: `close` says whether the
\* frame has a 'Close' block, and val[date][ticker] is raw_data['Close'].  The
\* requests of the script name 8 or 12 tickers, so the columns are a MultiIndex.
RawFrame(ds, cols, v) ==
    [close |-> TRUE, index |-> SortDates(ds), columns |-> cols, val |-> v]

----------------------------------------------------------------------------
(* get_performance_data, lines 53-77 *)

ErrDownload == "st.error: Could not download market data for one or more tickers."

\* ticker_to_name = {v: k for k, v in tickers.items()}: the last name wins
TickerToName(tickers, v) ==
    tickers[Max({i \in 1..Len(tickers) : tickers[i][2] = v})][1]

\* a frame and the messages emitted on the way
get_performance_data(tickers, raw) ==
    IF Len(raw.index) = 0 \/ ~raw.close
    THEN [frame |-> EmptyFrame, msgs |-> <<ErrDownload>>]
    ELSE LET \* raw_data['Close'].dropna(axis=1, how='all')
             kept == SelectSeq(raw.columns,
                               LAMBDA c : \E r \in Range(raw.index) : raw.val[r][c] # NaN)
             \* data.rename(columns=ticker_to_name)
             names == [i \in 1..Len(kept) |-> TickerToName(tickers, kept[i])]
         IN  IF Len(kept) = 0
             THEN [frame |-> EmptyFrame, msgs |-> <<>>]
             ELSE [frame |->
                     [index   |-> raw.index,
                      columns |-> names,
                      val     |-> [r \in Range(raw.index) |->
                                     [n \in Range(names) |->
                                        raw.val[r][kept[CHOOSE i \in 1..Len(kept) : names[i] = n]]]]],
                   msgs |-> <<>>]

----------------------------------------------------------------------------
(* calculate_performance_metrics, lines 79-129 *)

Metrics == <<"1 Day", "Week To Date (WTD)", "Month To Date (MTD)",
             "Quarter To Date (QTD)", "Year To Date (YTD)">>

\* the three period starts, lines 90-92
PeriodStarts(t) ==
    [week    |-> WeekRollback(t),
     month   |-> MonthBeginRollback(t),
     quarter |-> QuarterBeginRollback(t)]

\* a Series of NaN over the columns
NaNRow(df) == [c \in Range(df.columns) |-> NaN]

\* DataFrame.asof(where) for a scalar `where`, subset = all columns: the last row
\* at or before `where` that has no NaN in any column, else a row of NaN
asof(df, where) ==
    IF DateLt(where, df.index[1]) THEN NaNRow(df)
    ELSE LET ok == {i \in 1..Len(df.index) :
                      /\ DateLeq(df.index[i], where)
                      /\ \A c \in Range(df.columns) : df.val[df.index[i]][c] # NaN}
         IN  IF ok = {} THEN NaNRow(df) ELSE df.val[df.index[Max(ok)]]

\* lines 101-105: the last row of the prior year, else the first row of this year;
\* found = FALSE is the IndexError of .iloc[0] on an empty selection
soy_lookup(df, t) ==
    LET last_year == {i \in 1..Len(df.index) : df.index[i].y = t.y - 1}
        this_year == {i \in 1..Len(df.index) : df.index[i].y = t.y}
    IN  IF last_year # {} THEN [found |-> TRUE, row |-> df.val[df.index[Max(last_year)]]]
        ELSE IF this_year # {} THEN [found |-> TRUE, row |-> df.val[df.index[Min(this_year)]]]
        ELSE [found |-> FALSE, row |-> NaNRow(df)]

\* (latest / start) - 1 on floats: NaN if either is
Perf(latest, start) ==
    IF latest = NaN \/ start = NaN THEN NaN
    ELSE <<latest[1] - start[1], start[1]>>

\* lines 96-105: the four start prices, each a row over the columns
start_price_lookup(df, t) ==
    LET starts == PeriodStarts(t)
        soy    == soy_lookup(df, t)
    IN  [week    |-> asof(df, AddDays(starts.week, -1)),
         month   |-> asof(df, AddDays(starts.month, -1)),
         quarter |-> asof(df, AddDays(starts.quarter, -1)),
         year    |-> soy.row,
         found   |-> soy.found]

calculate_performance_metrics(df, t) ==
    IF Len(df.index) < 2 THEN EmptyFrame
    ELSE
    LET n == Len(df.index)
        latest_price == df.val[df.index[n]]
        prev_price == df.val[df.index[n - 1]]
        start == start_price_lookup(df, t)
        sow_price == start.week
        som_price == start.month
        soq_price == start.quarter
        soy_price == start.year
    IN  IF ~start.found THEN EmptyFrame
        ELSE IF AllNull(sow_price) \/ AllNull(som_price)
                \/ AllNull(soq_price) \/ AllNull(soy_price)
        THEN EmptyFrame
        ELSE [index   |-> df.columns,
              columns |-> Metrics,
              val     |-> [c \in Range(df.columns) |->
                  [m \in Range(Metrics) |->
                     CASE m = Metrics[1] -> Perf(latest_price[c], prev_price[c])
                       [] m = Metrics[2] -> Perf(latest_price[c], sow_price[c])
                       [] m = Metrics[3] -> Perf(latest_price[c], som_price[c])
                       [] m = Metrics[4] -> Perf(latest_price[c], soq_price[c])
                       [] m = Metrics[5] -> Perf(latest_price[c], soy_price[c])]]]

----------------------------------------------------------------------------
(* Float arithmetic on exact fractions; every denominator is positive *)

One == <<1, 1>>

\* a > b, a <= b, a < b on floats: false when either is NaN
Gt(a, b) == a # NaN /\ b # NaN /\ a[1] * b[2] > b[1] * a[2]
Le(a, b) == a # NaN /\ b # NaN /\ a[1] * b[2] <= b[1] * a[2]
Lt(a, b) == a # NaN /\ b # NaN /\ a[1] * b[2] < b[1] * a[2]

\* a > 0, a < 0
IsPos(a) == a # NaN /\ a[1] > 0
IsNeg(a) == a # NaN /\ a[1] < 0

\* a - b
Sub(a, b) ==
    IF a = NaN \/ b = NaN THEN NaN ELSE <<a[1] * b[2] - b[1] * a[2], a[2] * b[2]>>

\* abs(a)
Abs(a) == IF a = NaN THEN NaN ELSE IF a[1] < 0 THEN <<0 - a[1], a[2]>> ELSE a

\* a / b for b > 0
Div(a, b) == IF a = NaN \/ b = NaN THEN NaN ELSE <<a[1] * b[2], a[2] * b[1]>>

\* min(a, 1.0)
Min1(a) == IF Gt(a, One) THEN One ELSE a

\* Series.max() / Series.min() with skipna: NaN when nothing is left
MaxOf(S) == IF S = {} THEN NaN ELSE CHOOSE x \in S : \A y \in S : Le(y, x)
MinOf(S) == IF S = {} THEN NaN ELSE CHOOSE x \in S : \A y \in S : Le(x, y)

----------------------------------------------------------------------------
(* The ranking step of display_performance_section, lines 188-205 *)

\* lines 189-192
benchmark_name(ttl) ==
    IF ttl = "Factor" \/ ttl = "Sector" THEN "MSCI USA (US Benchmark)"
    ELSE "MSCI World (Benchmark)"

\* line 196
sort_col == "Year To Date (YTD)"

\* x put into a sequence of row labels that is descending by column `by`,
\* after every row that is not smaller (stable)
RECURSIVE InsertDesc(_, _, _, _)
InsertDesc(pt, by, sorted, x) ==
    IF sorted = <<>> THEN <<x>>
    ELSE IF Lt(pt.val[Head(sorted)][by], pt.val[x][by])
         THEN <<x>> \o sorted
         ELSE <<Head(sorted)>> \o InsertDesc(pt, by, Tail(sorted), x)

\* sort_values that leaves the rows in the order they came
sort_values_unsorted(pt, by, rows) == rows

\* DataFrame.sort_values(by=by, ascending=False) of the rows `rows` (none of them
\* NaN in `by`); for the frames of this script (under 16 rows) numpy sorts by
\* insertion, so equal rows keep their order
RECURSIVE sort_values(_, _, _)
sort_values(pt, by, rows) ==
    IF rows = <<>> THEN <<>>
    ELSE InsertDesc(pt, by, sort_values(pt, by, SubSeq(rows, 1, Len(rows) - 1)),
                    rows[Len(rows)])

\* line 201
above_benchmark(pt, bname) ==
    sort_values(pt, sort_col,
        SelectSeq(pt.index, LAMBDA r : Gt(pt.val[r][sort_col], pt.val[bname][sort_col])))

\* line 203 before .drop: the rows at or below the benchmark
at_or_below(pt, bname) ==
    SelectSeq(pt.index, LAMBDA r : Le(pt.val[r][sort_col], pt.val[bname][sort_col]))

\* line 203: .drop(index=benchmark_name) raises KeyError when the label is not there
below_benchmark(pt, bname) ==
    LET sel == at_or_below(pt, bname)
    IN  IF bname \notin Range(sel)
        THEN [raised |-> TRUE, rows |-> <<>>]
        ELSE [raised |-> FALSE,
              rows |-> sort_values(pt, sort_col, SelectSeq(sel, LAMBDA r : r # bname))]

\* line 205: pd.concat([above_benchmark, benchmark_row, below_benchmark])
ranked_table(pt, bname) ==
    LET below == below_benchmark(pt, bname)
    IN  IF below.raised THEN [raised |-> TRUE, frame |-> EmptyFrame]
        ELSE LET rows == above_benchmark(pt, bname) \o <<bname>> \o below.rows
             IN  [raised |-> FALSE,
                  frame |-> [index   |-> rows,
                             columns |-> pt.columns,
                             val     |-> [r \in Range(rows) |-> pt.val[r]]]]

----------------------------------------------------------------------------
(* style_performance_table, lines 131-178 *)

Gray == [family |-> "gray", intensity |-> NaN]
White == [family |-> "white", intensity |-> NaN]

\* line 139: one cell of diffs = df - benchmark_row
diffs(df, bname, r, c) == Sub(df.val[r][c], df.val[bname][c])

\* line 142: diffs[diffs > 0].max(), for column c
max_pos_per_col(df, bname, c) ==
    MaxOf({diffs(df, bname, r, c) : r \in {x \in Range(df.index) : IsPos(diffs(df, bname, x, c))}})

\* line 143: abs(diffs[diffs < 0].min()), for column c
max_neg_per_col(df, bname, c) ==
    Abs(MinOf({diffs(df, bname, r, c) : r \in {x \in Range(df.index) : IsNeg(diffs(df, bname, x, c))}}))

\* color_cell with abs() forgotten on the loss side
color_cell_no_abs(r, bname, value, bvalue, max_pos, max_neg) ==
    IF r = bname THEN Gray
    ELSE LET diff == Sub(value, bvalue)
         IN  IF IsPos(diff)
             THEN IF max_pos # NaN /\ IsPos(max_pos)
                  THEN [family |-> "green", intensity |-> Min1(Div(diff, max_pos))]
                  ELSE White
             ELSE IF IsNeg(diff)
             THEN IF max_neg # NaN /\ IsPos(max_neg)
                  THEN [family |-> "red", intensity |-> Min1(Div(diff, max_neg))]
                  ELSE White
             ELSE White

\* lines 152-175: the style of the cell of row `r` whose value is `value`, in a
\* column whose benchmark value is `bvalue`
color_cell(r, bname, value, bvalue, max_pos, max_neg) ==
    IF r = bname THEN Gray
    ELSE LET diff == Sub(value, bvalue)
         IN  IF IsPos(diff)
             THEN IF max_pos # NaN /\ IsPos(max_pos)
                  THEN [family |-> "green", intensity |-> Min1(Div(diff, max_pos))]
                  ELSE White
             ELSE IF IsNeg(diff)
             THEN IF max_neg # NaN /\ IsPos(max_neg)
                  THEN [family |-> "red", intensity |-> Min1(Div(Abs(diff), max_neg))]
                  ELSE White
             ELSE White

\* lines 138-178 on a frame that holds the benchmark (the only call the script
\* makes that can reach them, line 207): the style of every cell
style_performance_table(df, bname) ==
    LET max_pos == [c \in Range(df.columns) |-> max_pos_per_col(df, bname, c)]
        max_neg == [c \in Range(df.columns) |-> max_neg_per_col(df, bname, c)]
    IN  [r \in Range(df.index) |->
            [c \in Range(df.columns) |->
                color_cell(r, bname, df.val[r][c], df.val[bname][c], max_pos[c], max_neg[c])]]

----------------------------------------------------------------------------
(* The script: one display_performance_section call per tab, lines 180-231, 263-268 *)

WarnDisplay == "st.warning: Could not display performance data for {title}."

\* the dates on which the script is run
Todays == {Date(2026, 11, 4)}

Init ==
    /\ today \in Todays
    /\ pc = "tabs"
    /\ tab = 0
    /\ title = ""
    /\ raw_data = EmptyRaw
    /\ data = EmptyFrame
    /\ performance_table = EmptyFrame
    /\ display_table = EmptyFrame
    /\ styled = <<>>
    /\ outcome = "none"
    /\ report = <<>>
    /\ start_of_week = NoDate
    /\ start_of_month = NoDate
    /\ start_of_quarter = NoDate
    /\ start_prices = <<>>

\* display_performance_section(title, tickers) for the next tab, with the
\* provider answering `raw`: the state after it is the call's locals and what it
\* emitted.  The chart of lines 213-229 only renders.
display_performance_section(i, raw) ==
    \E got \in {get_performance_data(Sections[i].tickers, raw)} :
    \E pt \in {calculate_performance_metrics(got.frame, today)} :
    LET ttl     == Sections[i].title
        bname   == benchmark_name(ttl)
        starts  == PeriodStarts(today)
    IN  /\ pc = "tabs"
        /\ tab = i - 1
        /\ tab' = i
        /\ title' = ttl
        /\ raw_data' = raw
        /\ data' = got.frame
        /\ performance_table' = pt
        /\ IF Len(got.frame.index) < 2
           THEN UNCHANGED <<start_of_week, start_of_month, start_of_quarter, start_prices>>
           ELSE /\ start_of_week' = starts.week
                /\ start_of_month' = starts.month
                /\ start_of_quarter' = starts.quarter
                /\ start_prices' = start_price_lookup(got.frame, today)
        /\ IF ~IsEmpty(pt)
           THEN IF bname \in Range(pt.index)
                THEN \E ranked \in {ranked_table(pt, bname)} :
                     IF ranked.raised
                     THEN /\ outcome' = "KeyError"
                          /\ pc' = "raised"
                          /\ display_table' = EmptyFrame
                          /\ styled' = <<>>
                          /\ report' = got.msgs
                     ELSE /\ outcome' = "ranked"
                          /\ pc' = "shown"
                          /\ display_table' = ranked.frame
                          /\ styled' = style_performance_table(ranked.frame, bname)
                          /\ report' = got.msgs
                ELSE /\ outcome' = "unranked"
                     /\ pc' = "shown"
                     /\ display_table' = pt
                     /\ styled' = <<>>
                     /\ report' = got.msgs
           ELSE /\ outcome' = "warning"
                /\ pc' = "shown"
                /\ display_table' = EmptyFrame
                /\ styled' = <<>>
                /\ report' = got.msgs \o <<WarnDisplay>>
        /\ UNCHANGED today

\* the next `with tab:` block; the provider answers with no rows, with rows
\* that have no 'Close', or with Close prices for some tickers and dates
DisplaySection ==
    /\ pc = "tabs"
    /\ tab < Len(Sections)
    /\ \/ \E raw \in {EmptyRaw, NoCloseRaw(today)} :
              display_performance_section(tab + 1, raw)
       \/ \E cols \in AnsweredTickers(Sections[tab + 1].tickers) :
              \E ds \in AnsweredDates(today, Len(cols)) :
                  \E v \in [ds -> [Range(cols) -> Cells]] :
                      display_performance_section(tab + 1, RawFrame(ds, cols, v))

\* the call returns and the `with tab:` block ends: its locals are gone
LeaveTab ==
    /\ pc = "shown"
    /\ pc' = "tabs"
    /\ title' = ""
    /\ raw_data' = EmptyRaw
    /\ data' = EmptyFrame
    /\ performance_table' = EmptyFrame
    /\ display_table' = EmptyFrame
    /\ styled' = <<>>
    /\ outcome' = "none"
    /\ report' = <<>>
    /\ start_of_week' = NoDate
    /\ start_of_month' = NoDate
    /\ start_of_quarter' = NoDate
    /\ start_prices' = <<>>
    /\ UNCHANGED <<today, tab>>

Next == DisplaySection \/ LeaveTab

Spec == Init /\ [][Next]_vars

----------------------------------------------------------------------------
(* The period starts alone, lines 87-92, for every date of a range of years *)

BoundaryYears == 2024..2027

InitBoundary ==
    /\ today \in {Date(y, m, d) : y \in BoundaryYears, m \in 1..12, d \in 1..31}
    /\ today.d <= DaysInMonth(today.y, today.m)
    /\ pc = "boundaries"
    /\ tab = 0
    /\ title = ""
    /\ raw_data = EmptyRaw
    /\ data = EmptyFrame
    /\ performance_table = EmptyFrame
    /\ display_table = EmptyFrame
    /\ styled = <<>>
    /\ outcome = "none"
    /\ report = <<>>
    /\ start_of_week = NoDate
    /\ start_of_month = NoDate
    /\ start_of_quarter = NoDate
    /\ start_prices = <<>>

ResolvePeriodStarts ==
    /\ pc = "boundaries"
    /\ pc' = "resolved"
    /\ start_of_week' = PeriodStarts(today).week
    /\ start_of_month' = PeriodStarts(today).month
    /\ start_of_quarter' = PeriodStarts(today).quarter
    /\ UNCHANGED <<today, tab, title, raw_data, data, performance_table, display_table,
                   styled, outcome, report, start_prices>>

NextBoundary == ResolvePeriodStarts

SpecBoundary == InitBoundary /\ [][NextBoundary]_vars

----------------------------------------------------------------------------
(* Properties *)

\* a display_performance_section call has run (and returned or raised)
Called == pc \in {"shown", "raised"}

\* the call got past line 83 and looked the start prices up
LookedUp == Called /\ Len(data.index) >= 2

YTD == "Year To Date (YTD)"

\* the instrument's own price at its latest observed date on or before `where`
OwnAsof(df, c, where) ==
    LET obs == {i \in 1..Len(df.index) :
                  DateLeq(df.index[i], where) /\ df.val[df.index[i]][c] # NaN}
    IN  IF obs = {} THEN NaN ELSE df.val[df.index[Max(obs)]][c]

\* the instrument's own last price of the prior year, else its own first price
\* of the current year
OwnYearStart(df, c, t) ==
    LET prior == {i \in 1..Len(df.index) :
                    df.index[i].y = t.y - 1 /\ df.val[df.index[i]][c] # NaN}
        this  == {i \in 1..Len(df.index) :
                    df.index[i].y = t.y /\ df.val[df.index[i]][c] # NaN}
    IN  IF prior # {} THEN df.val[df.index[Max(prior)]][c]
        ELSE IF this # {} THEN df.val[df.index[Min(this)]][c]
        ELSE NaN

\* some start price of the instrument cannot be resolved from its own series
OwnStartUnresolved(df, c, t) ==
    \/ OwnAsof(df, c, AddDays(start_of_week, -1)) = NaN
    \/ OwnAsof(df, c, AddDays(start_of_month, -1)) = NaN
    \/ OwnAsof(df, c, AddDays(start_of_quarter, -1)) = NaN
    \/ OwnYearStart(df, c, t) = NaN

\* C1: every row of the result of calculate_performance_metrics has all five
\* returns defined, and an instrument with an unresolved start price has no row.
C1_NoPartialRow ==
    LookedUp =>
        \A c \in Range(data.columns) :
            /\ c \in Range(performance_table.index) =>
                   \A m \in Range(Metrics) : performance_table.val[c][m] # NaN
            /\ OwnStartUnresolved(data, c, today) =>
                   c \notin Range(performance_table.index)

\* the Monday on or before t
MondayOnOrBefore(t) == AddDays(t, 0 - Weekday(t))

\* C2: each period start is the first day of the period that contains today:
\* the Monday on or before today, the 1st of today's month, the 1st of today's
\* quarter; it is today when today is such a first day.
C2_StartsContainToday ==
    pc = "resolved" =>
        /\ start_of_week = MondayOnOrBefore(today)
        /\ start_of_month = Date(today.y, today.m, 1)
        /\ start_of_quarter = Date(today.y, 3 * ((today.m - 1) \div 3) + 1, 1)

\* C3: the week, month and quarter start price of every instrument is its own
\* price at its latest observed date on or before the day before the boundary,
\* NaN only if it has none: other instruments' gaps do not matter.
C3_StartPriceIsOwnAsof ==
    LookedUp =>
        \A c \in Range(data.columns) :
            /\ start_prices.week[c] = OwnAsof(data, c, AddDays(start_of_week, -1))
            /\ start_prices.month[c] = OwnAsof(data, c, AddDays(start_of_month, -1))
            /\ start_prices.quarter[c] = OwnAsof(data, c, AddDays(start_of_quarter, -1))

\* C4: the YTD start price of every instrument is its own last price of the
\* prior year, or, when it has none, its own first price of the current year.
C4_YearStartPerInstrument ==
    LookedUp =>
        \A c \in Range(data.columns) :
            start_prices.year[c] = OwnYearStart(data, c, today)

\* where the label sits in a sequence of row labels
Positions(idx, r) == {i \in 1..Len(idx) : idx[i] = r}

\* the benchmark of the section on display
Bench == benchmark_name(title)

\* the sort-metric value of the i-th displayed row
Shown(i) == display_table.val[display_table.index[i]][YTD]

\* the orders in which the rows of the performance table can have been inserted
InsertionOrders(pt) ==
    {p \in [1..Len(pt.index) -> Range(pt.index)] : Range(p) = Range(pt.index)}

\* C5: the displayed table is [above][benchmark][below]: rows before the
\* benchmark are strictly above it and descending, rows after it are at or
\* below it and descending, and the benchmark's position is the same for every
\* insertion order of the rows.
C5_BenchmarkAnchoredOrder ==
    outcome = "ranked" =>
        /\ Cardinality(Positions(display_table.index, Bench)) = 1
        /\ LET k == CHOOSE i \in Positions(display_table.index, Bench) : TRUE
               n == Len(display_table.index)
           IN  /\ \A i \in 1..(k - 1) : Gt(Shown(i), Shown(k))
               /\ \A i \in (k + 1)..n : Le(Shown(i), Shown(k))
               /\ \A i \in 1..n : \A j \in (i + 1)..n :
                      (j < k \/ i > k) => Le(Shown(j), Shown(i))
               /\ \A p \in InsertionOrders(performance_table) :
                      LET again == ranked_table([performance_table EXCEPT !.index = p], Bench)
                      IN  /\ ~again.raised
                          /\ Positions(again.frame.index, Bench) = {k}

\* a ranked table with a row above the benchmark and a row below it
C5_Witness ==
    /\ outcome = "ranked"
    /\ Len(display_table.index) = 3
    /\ display_table.index[2] = Bench
    /\ performance_table.index[1] = Bench
    /\ Lt(Shown(3), Shown(2))

\* C6: the ranked table holds every row of the performance table exactly once.
C6_RankingIsPartition ==
    outcome = "ranked" =>
        \A r \in Range(performance_table.index) :
            Cardinality(Positions(display_table.index, r)) = 1

\* the fraction lies in [0, 1]
InUnit(q) == q # NaN /\ q[2] > 0 /\ 0 <= q[1] /\ q[1] <= q[2]

\* C7: every intensity computed lies in [0,1]; the benchmark row is neutral;
\* a cell with no delta to the benchmark, or with no positive maximum deviation
\* on its side of the column, is neutral and nothing is divided for it.
C7_IntensityInUnitInterval ==
    outcome = "ranked" =>
        \A r \in Range(display_table.index) : \A c \in Range(display_table.columns) :
            LET cell == styled[r][c]
                diff == diffs(display_table, Bench, r, c)
            IN  /\ cell.family \in {"green", "red"} => InUnit(cell.intensity)
                /\ cell.family \in {"gray", "white"} => cell.intensity = NaN
                /\ r = Bench => cell = Gray
                /\ r # Bench /\ ~IsPos(diff) /\ ~IsNeg(diff) => cell = White
                /\ r # Bench /\ IsPos(diff) /\ ~IsPos(max_pos_per_col(display_table, Bench, c))
                       => cell = White
                /\ r # Bench /\ IsNeg(diff) /\ ~IsPos(max_neg_per_col(display_table, Bench, c))
                       => cell = White
                /\ r # Bench /\ IsPos(diff) => cell.family = "green"
                /\ r # Bench /\ IsNeg(diff) => cell.family = "red"

\* a styled table with two loss cells in one column: one at the column's
\* maximum deviation (intensity 1), one strictly inside (0,1)
C7_Witness ==
    /\ outcome = "ranked"
    /\ \E c \in Range(display_table.columns) :
           \E r1, r2 \in Range(display_table.index) :
               /\ styled[r1][c].family = "red"
               /\ styled[r2][c].family = "red"
               /\ 0 < styled[r1][c].intensity[1]
               /\ styled[r1][c].intensity[1] < styled[r1][c].intensity[2]
               /\ styled[r2][c].intensity[1] = styled[r2][c].intensity[2]

\* C8: whatever the provider returns, the call ends in an empty, an unranked or
\* a ranked result; nothing is raised.
C8_NoUnhandledException ==
    Called => /\ pc # "raised"
              /\ outcome \in {"warning", "unranked", "ranked"}

\* C9: the report of "the provider returned usable data but no performance
\* could be calculated" is never the report of "get_performance_data returned
\* no data".
C9_EmptyCasesReportedApart ==
    pc = "shown" =>
        /\ ~IsEmpty(data) /\ IsEmpty(performance_table) => report = <<WarnDisplay>>
        /\ IsEmpty(data) => report # <<WarnDisplay>>

\* the dict passed with the title
TickersOf(ttl) == (CHOOSE i \in 1..Len(Sections) : Sections[i].title = ttl)

\* C10: the benchmark selected for a section is a name of the section's dict,
\* so a non-empty table with the benchmark's ticker answered is shown ranked.
C10_BenchmarkInSection ==
    Called =>
        LET tickers == Sections[TickersOf(title)].tickers
        IN  /\ Bench \in Names(tickers)
            /\ (/\ ~IsEmpty(performance_table)
                /\ Range(data.columns)
                     = {TickerToName(tickers, v) : v \in Range(Universe(tickers))})
                   => outcome # "unranked"

====
